---- MODULE Spec2Model ----
(***************************************************************************)
(* dictalchemy/utils.py: asdict and fromdict over SQLAlchemy mapped        *)
(* instances.  Names are sequences of characters, Python lists are         *)
(* sequences, list objects the caller keeps live in a heap so that         *)
(* in-place "+=" is visible after the call, and a dict that is iterated    *)
(* is the sequence of its (key, value) items in iteration order.           *)
(***************************************************************************)
EXTENDS Integers, Sequences, FiniteSets, TLC

VARIABLES conf, inst, heap, call, ret

vars == <<conf, inst, heap, call, ret>>

-----------------------------------------------------------------------------
(* Bounds of the exploration *)

\* a list object is not passed again once it has grown beyond this length
MaxExcludeLen == 4
\* longest relationship collection
MaxKids == 2
\* most items in a data mapping given to fromdict
MaxData == 2

Values == {0, 1}

-----------------------------------------------------------------------------
(* Names used by the mapped classes *)

id == <<"i", "d">>
nm == <<"n", "m">>
us == <<"_", "h">>
sy == <<"s", "y">>
pp == <<"_", "p">>
rs == <<"r", "s">>
kids == <<"k", "i", "d", "s">>
tg == <<"t", "g">>
zz == <<"z", "z", "z">>

None == "None"
True == "True"
False == "False"

Range(s) == {s[i] : i \in DOMAIN s}

\* model.__mapper__.iterate_properties of the two mapped classes: Parent has
\* a primary-key column, a plain column, an underscore column, a synonym of
\* the primary-key column, a scalar relationship and a list relationship to
\* Child; Child has a primary-key column, a plain column and an underscore
\* column.
iterate_properties(cls) ==
    IF cls = "Parent"
    THEN << [key |-> id, kind |-> "ColumnProperty", primary_key |-> TRUE, name |-> id],
            [key |-> nm, kind |-> "ColumnProperty", primary_key |-> FALSE, name |-> nm],
            [key |-> us, kind |-> "ColumnProperty", primary_key |-> FALSE, name |-> us],
            [key |-> sy, kind |-> "SynonymProperty", primary_key |-> FALSE, name |-> id],
            [key |-> rs, kind |-> "RelationshipProperty", primary_key |-> FALSE, name |-> rs],
            [key |-> kids, kind |-> "RelationshipProperty", primary_key |-> FALSE, name |-> kids] >>
    ELSE << [key |-> id, kind |-> "ColumnProperty", primary_key |-> TRUE, name |-> id],
            [key |-> tg, kind |-> "ColumnProperty", primary_key |-> FALSE, name |-> tg],
            [key |-> us, kind |-> "ColumnProperty", primary_key |-> FALSE, name |-> us] >>

IsKind(p, kind) == p.kind = kind

KeysOf(props) == [i \in DOMAIN props |-> props[i].key]

get_relation_keys(cls) ==
    KeysOf(SelectSeq(iterate_properties(cls), LAMBDA p : IsKind(p, "RelationshipProperty")))

get_column_keys(cls) ==
    KeysOf(SelectSeq(iterate_properties(cls), LAMBDA p : IsKind(p, "ColumnProperty")))

get_synonym_keys(cls) ==
    KeysOf(SelectSeq(iterate_properties(cls), LAMBDA p : IsKind(p, "SynonymProperty")))

\* hasattr(k, 'columns') holds of column properties only
get_primary_key_properties(cls) ==
    KeysOf(SelectSeq(iterate_properties(cls),
                     LAMBDA p : IsKind(p, "ColumnProperty") /\ p.primary_key))

underscore_keys(cls) ==
    KeysOf(SelectSeq(iterate_properties(cls), LAMBDA p : p.key[1] = "_"))

-----------------------------------------------------------------------------
(* Class configuration *)

default_exclude == << >>
default_exclude_underscore == True
default_fromdict_allow_pk == False

DefaultConf ==
    [dictalchemy_exclude |-> default_exclude,
     dictalchemy_exclude_underscore |-> default_exclude_underscore,
     dictalchemy_fromdict_allow_pk |-> default_fromdict_allow_pk,
     dictalchemy_asdict_include |-> << >>,
     dictalchemy_fromdict_include |-> << >>]

\* getattr(model, 'dictalchemy_...', default): Parent was made dictable and
\* carries conf, Child carries the defaults
ClassAttrs(cls) == IF cls = "Parent" THEN conf ELSE DefaultConf

-----------------------------------------------------------------------------
(* Attribute access on instances *)

PropOf(cls, k) ==
    LET ps == iterate_properties(cls)
    IN  ps[CHOOSE i \in DOMAIN ps : ps[i].key = k]

IsMapped(cls, k) == k \in Range(KeysOf(iterate_properties(cls)))

hasattr_asdict(v) == v.kind = "inst"

InstrumentedList(v) == v.kind = "list"

getattr(model, k) ==
    IF ~IsMapped(model.cls, k) THEN model.vals[k]
    ELSE LET p == PropOf(model.cls, k)
         IN  IF p.kind = "RelationshipProperty" THEN model.rels[k]
             ELSE model.vals[p.name]

setattr(model, k, v) ==
    IF ~IsMapped(model.cls, k) THEN [model EXCEPT !.vals[k] = v]
    ELSE LET p == PropOf(model.cls, k)
         IN  IF p.kind = "RelationshipProperty" THEN [model EXCEPT !.rels[k] = v]
             ELSE [model EXCEPT !.vals[p.name] = v]

-----------------------------------------------------------------------------
(* Arguments *)

\* a list argument is None or a reference to a list object of the heap
ListArg(h, ref) == IF ref = None THEN << >> ELSE h[ref]

\* "x = x or []; x += ..." rebinds an empty or missing argument to a fresh
\* list and extends a non-empty argument in place
StoreList(h, ref, new) ==
    IF ref # None /\ h[ref] # << >> THEN [h EXCEPT ![ref] = new] ELSE h

EmptyBundle == [kind |-> "kwargs", exclude |-> None, exclude_pk |-> None, allow_pk |-> None]

RECURSIVE DictOfPairs(_, _)
\* dict(pairs): a later pair replaces the value of an equal earlier key
DictOfPairs(pairs, done) ==
    IF pairs = << >> THEN done
    ELSE LET p == Head(pairs)
             at == {i \in DOMAIN done : done[i][1] = p[1]}
         IN  DictOfPairs(Tail(pairs),
                         IF at = {} THEN Append(done, p)
                         ELSE [i \in DOMAIN done |-> IF i \in at THEN p ELSE done[i]])

\* follow = dict(follow), and on ValueError dict.fromkeys(list(follow), {}):
\* dict() of a list of names succeeds when every name has two characters
NormalizeFollow(follow) ==
    IF follow.kind = "None" THEN << >>
    ELSE IF follow.kind = "dict" THEN follow.items
    ELSE IF \A i \in DOMAIN follow.items : Len(follow.items[i]) = 2
         THEN DictOfPairs([i \in DOMAIN follow.items |->
                             << <<follow.items[i][1]>>,
                                [kind |-> "str", chars |-> <<follow.items[i][2]>>] >>], << >>)
         ELSE DictOfPairs([i \in DOMAIN follow.items |-> <<follow.items[i], EmptyBundle>>], << >>)

-----------------------------------------------------------------------------
(* asdict *)

AsdictExcludeMutant(cls, exclude, exclude_underscore, exclude_pk) ==
    exclude \o ClassAttrs(cls).dictalchemy_exclude
            \o (IF exclude_pk = True THEN get_primary_key_properties(cls) ELSE << >>)

AsdictExclude(cls, exclude, exclude_underscore, exclude_pk) ==
    LET eu == IF exclude_underscore = None
              THEN ClassAttrs(cls).dictalchemy_exclude_underscore
              ELSE exclude_underscore
    IN  exclude \o ClassAttrs(cls).dictalchemy_exclude
                \o (IF eu = True THEN underscore_keys(cls) ELSE << >>)
                \o (IF exclude_pk = True THEN get_primary_key_properties(cls) ELSE << >>)

Update(data, k, v) == [x \in DOMAIN data \cup {k} |-> IF x = k THEN v ELSE data[x]]

Raise(err, h) == [status |-> err, data |-> << >>, heap |-> h]

RECURSIVE asdict(_, _, _, _, _, _, _)
RECURSIVE AsdictFollow(_, _, _, _, _)
RECURSIVE AsdictChildren(_, _, _, _, _)

asdict(model, h, exclude, exclude_underscore, exclude_pk, follow, include) ==
    LET follow1 == NormalizeFollow(follow)
        exclude1 == AsdictExclude(model.cls, ListArg(h, exclude), exclude_underscore, exclude_pk)
        h1 == StoreList(h, exclude, exclude1)
        include1 == include \o ClassAttrs(model.cls).dictalchemy_asdict_include
        names == get_column_keys(model.cls) \o get_synonym_keys(model.cls) \o include1
        data == [k \in Range(names) \ Range(exclude1) |-> getattr(model, k)]
    IN  AsdictFollow(model, h1, data, follow1, 1)

\* for child in rel: children.append(child.asdict(**args))
AsdictChildren(rel, h, args, i, children) ==
    IF i > Len(rel)
    THEN [status |-> "ok", data |-> children, heap |-> h]
    ELSE LET r == asdict(rel[i], h, args.exclude, None, args.exclude_pk,
                         [kind |-> "None"], << >>)
         IN  IF r.status # "ok" THEN r
             ELSE AsdictChildren(rel, r.heap, args, i + 1, Append(children, r.data))

\* for (k, args) in follow.iteritems(): ...
AsdictFollow(model, h, data, follow, i) ==
    IF i > Len(follow)
    THEN [status |-> "ok", data |-> data, heap |-> h]
    ELSE LET k == follow[i][1]
             args == follow[i][2]
         IN  IF k \notin Range(get_relation_keys(model.cls))
             THEN Raise("ValueError", h)
             ELSE LET rel == getattr(model, k)
                  IN  IF hasattr_asdict(rel)
                      THEN IF args.kind # "kwargs"
                           THEN Raise("TypeError", h)
                           ELSE LET r == asdict(rel, h, args.exclude, None, args.exclude_pk,
                                                [kind |-> "None"], << >>)
                                IN  IF r.status # "ok" THEN r
                                    ELSE AsdictFollow(model, r.heap,
                                                      Update(data, k, r.data), follow, i + 1)
                      ELSE IF InstrumentedList(rel)
                      THEN IF args.kind # "kwargs" /\ rel.items # << >>
                           THEN Raise("TypeError", h)
                           ELSE LET r == AsdictChildren(rel.items, h, args, 1, << >>)
                                IN  IF r.status # "ok" THEN r
                                    ELSE AsdictFollow(model, r.heap,
                                                      Update(data, k, r.data), follow, i + 1)
                      ELSE AsdictFollow(model, h, data, follow, i + 1)

-----------------------------------------------------------------------------
(* fromdict *)

FromdictExclude(cls, exclude, exclude_underscore) ==
    LET eu == IF exclude_underscore = None
              THEN ClassAttrs(cls).dictalchemy_exclude_underscore
              ELSE exclude_underscore
    IN  exclude \o ClassAttrs(cls).dictalchemy_exclude
                \o (IF eu = True THEN underscore_keys(cls) ELSE << >>)

AllowPkMutant(cls, allow_pk) ==
    IF allow_pk = None THEN default_fromdict_allow_pk ELSE allow_pk

\* if allow_pk is None: allow_pk = getattr(model, 'dictalchemy_fromdict_allow_pk', ...)
AllowPk(cls, allow_pk) ==
    IF allow_pk = None THEN ClassAttrs(cls).dictalchemy_fromdict_allow_pk ELSE allow_pk

HasKey(data, k) == \E i \in DOMAIN data : data[i][1] = k

Lookup(data, k) == data[CHOOSE i \in DOMAIN data : data[i][1] = k][2]

RECURSIVE FromdictData(_, _, _, _, _)
RECURSIVE FromdictFollow(_, _, _, _, _)
RECURSIVE fromdict(_, _, _, _, _, _, _, _)

FromdictDataMutant(model, data, allow_pk, names, i) ==
    IF i > Len(data)
    THEN [status |-> "ok", model |-> model]
    ELSE LET k == data[i][1]
             v == data[i][2]
         IN  IF k \in Range(names)
             THEN IF allow_pk # True /\ k \in Range(get_primary_key_properties(model.cls))
                  THEN [status |-> "Exception", model |-> setattr(model, k, v)]
                  ELSE FromdictData(setattr(model, k, v), data, allow_pk, names, i + 1)
             ELSE FromdictData(model, data, allow_pk, names, i + 1)

\* for k, v in data.iteritems(): the primary-key check, then setattr when k is
\* in columns + synonyms + include
FromdictData(model, data, allow_pk, names, i) ==
    IF i > Len(data)
    THEN [status |-> "ok", model |-> model]
    ELSE LET k == data[i][1]
             v == data[i][2]
         IN  IF allow_pk # True /\ k \in Range(get_primary_key_properties(model.cls))
             THEN [status |-> "Exception", model |-> model]
             ELSE IF k \in Range(names)
                  THEN FromdictData(setattr(model, k, v), data, allow_pk, names, i + 1)
                  ELSE FromdictData(model, data, allow_pk, names, i + 1)

\* for (k, args) in follow.iteritems(): skip a key that is not in data, raise
\* for a key that is not a relationship, recurse into a dictable scalar
FromdictFollow(model, data, h, follow, i) ==
    IF i > Len(follow)
    THEN [status |-> "ok", model |-> model, heap |-> h]
    ELSE LET k == follow[i][1]
             args == follow[i][2]
         IN  IF ~HasKey(data, k)
             THEN FromdictFollow(model, data, h, follow, i + 1)
             ELSE IF k \notin Range(get_relation_keys(model.cls))
             THEN [status |-> "ValueError", model |-> model, heap |-> h]
             ELSE LET rel == getattr(model, k)
                  IN  IF hasattr_asdict(rel)
                      THEN IF args.kind # "kwargs"
                           THEN [status |-> "TypeError", model |-> model, heap |-> h]
                           ELSE LET r == fromdict(rel, Lookup(data, k), h, args.exclude, None,
                                                  args.allow_pk, [kind |-> "None"], << >>)
                                    m == setattr(model, k, r.model)
                                IN  IF r.status # "ok"
                                    THEN [status |-> r.status, model |-> m, heap |-> r.heap]
                                    ELSE FromdictFollow(m, data, r.heap, follow, i + 1)
                      ELSE FromdictFollow(model, data, h, follow, i + 1)

fromdict(model, data, h, exclude, exclude_underscore, allow_pk, follow, include) ==
    LET follow1 == NormalizeFollow(follow)
        exclude1 == FromdictExclude(model.cls, ListArg(h, exclude), exclude_underscore)
        h1 == StoreList(h, exclude, exclude1)
        allow_pk1 == AllowPk(model.cls, allow_pk)
        include1 == include \o ClassAttrs(model.cls).dictalchemy_fromdict_include
        names == get_column_keys(model.cls) \o get_synonym_keys(model.cls) \o include1
        r == FromdictData(model, data, allow_pk1, names, 1)
    IN  IF r.status # "ok"
        THEN [status |-> r.status, model |-> r.model, heap |-> h1]
        ELSE FromdictFollow(r.model, data, h1, follow1, 1)

-----------------------------------------------------------------------------
(* Instances, arguments and the calls made *)

NoFollow == [kind |-> "None"]

NoneRel == [kind |-> "None"]

\* an instance of a class that was not made dictable
PlainRel == [kind |-> "plain"]

ListRel(items) == [kind |-> "list", items |-> items]

ChildInst(c, t) ==
    [kind |-> "inst", cls |-> "Child",
     vals |-> (id :> c) @@ (tg :> t) @@ (us :> 0), rels |-> << >>]

ParentInst(i, n, u, p, r, k) ==
    [kind |-> "inst", cls |-> "Parent",
     vals |-> (id :> i) @@ (nm :> n) @@ (us :> u) @@ (pp :> p),
     rels |-> (rs :> r) @@ (kids :> ListRel(k))]

RECURSIVE SeqsOfLen(_, _)
SeqsOfLen(S, n) ==
    IF n = 0 THEN {<< >>} ELSE {Append(s, x) : s \in SeqsOfLen(S, n - 1), x \in S}

SeqsUpTo(S, n) == UNION {SeqsOfLen(S, m) : m \in 0..n}

\* mappings as item sequences: distinct keys, in iteration order
ItemSeqs(Items, n) ==
    {d \in SeqsUpTo(Items, n) : \A i, j \in DOMAIN d : i # j => d[i][1] # d[j][1]}

DataMappings(keys, vals, n) == ItemSeqs(keys \X vals, n)

AllNames == <<id, nm, us, sy, pp, tg, rs, kids>>

Reverse(s) == [i \in DOMAIN s |-> s[Len(s) + 1 - i]]

Rotations(s) ==
    IF s = << >> THEN {<< >>}
    ELSE {[i \in DOMAIN s |-> s[((i + j - 1) % Len(s)) + 1]] : j \in 0..(Len(s) - 1)}

\* data.iteritems() of a dict: the items in some order
iteritems(d) ==
    LET ks == SelectSeq(AllNames, LAMBDA k : k \in DOMAIN d)
        items == [i \in DOMAIN ks |-> <<ks[i], d[ks[i]]>>]
    IN  Rotations(items) \cup Rotations(Reverse(items))

NoCall == [op |-> "none"]
NoRet == [status |-> "none", data |-> << >>]

Bounded(h) == \A ref \in DOMAIN h : Len(h[ref]) <= MaxExcludeLen

\* make_class_dictable(cls, exclude, exclude_underscore, fromdict_allow_pk,
\*                     asdict_include, fromdict_include) on the Parent class
make_class_dictable(Excludes, Underscores, AllowPks, AsdictIncludes, FromdictIncludes) ==
    /\ call.op = "none"
    /\ \E exclude \in Excludes, exclude_underscore \in Underscores, fromdict_allow_pk \in AllowPks,
       asdict_include \in AsdictIncludes, fromdict_include \in FromdictIncludes :
        /\ conf' = [dictalchemy_exclude |-> exclude,
                    dictalchemy_exclude_underscore |-> exclude_underscore,
                    dictalchemy_fromdict_allow_pk |-> fromdict_allow_pk,
                    dictalchemy_asdict_include |-> asdict_include,
                    dictalchemy_fromdict_include |-> fromdict_include]
        /\ UNCHANGED <<inst, heap, call, ret>>

\* inst.asdict(exclude=..., exclude_underscore=..., exclude_pk=..., follow=..., include=...)
AsdictCall(Excludes, Underscores, ExcludePks, Follows, Includes) ==
    /\ call.op = "none"
    /\ \E exclude \in Excludes, exclude_underscore \in Underscores, exclude_pk \in ExcludePks,
       follow \in Follows, include \in Includes :
        \E r \in {asdict(inst, heap, exclude, exclude_underscore, exclude_pk, follow, include)} :
            /\ Bounded(r.heap)
            /\ call' = [op |-> "asdict", exclude |-> exclude,
                        exclude_underscore |-> exclude_underscore, exclude_pk |-> exclude_pk,
                        follow |-> follow, include |-> include, heap |-> heap, inst |-> inst]
            /\ ret' = [status |-> r.status, data |-> r.data]
            /\ heap' = r.heap
            /\ UNCHANGED <<conf, inst>>

\* inst.fromdict(data, exclude=..., exclude_underscore=..., allow_pk=..., follow=..., include=...)
FromdictCall(Datas, Excludes, Underscores, AllowPks, Follows, Includes) ==
    /\ call.op = "none"
    /\ \E data \in Datas, exclude \in Excludes, exclude_underscore \in Underscores,
       allow_pk \in AllowPks, follow \in Follows, include \in Includes :
        \E r \in {fromdict(inst, data, heap, exclude, exclude_underscore, allow_pk, follow,
                             include)} :
            /\ Bounded(r.heap)
            /\ call' = [op |-> "fromdict", data |-> data, exclude |-> exclude,
                        exclude_underscore |-> exclude_underscore, allow_pk |-> allow_pk,
                        follow |-> follow, include |-> include, heap |-> heap, inst |-> inst]
            /\ ret' = [status |-> r.status, data |-> << >>]
            /\ inst' = r.model
            /\ heap' = r.heap
            /\ UNCHANGED conf

\* inst.fromdict(inst.asdict(**options, exclude_pk=...), **options, allow_pk=...)
RoundTripCall(Excludes, Underscores, ExcludePks, AllowPks, Includes) ==
    /\ call.op = "none"
    /\ \E exclude \in Excludes, exclude_underscore \in Underscores, exclude_pk \in ExcludePks,
       allow_pk \in AllowPks, include \in Includes :
        \E a \in {asdict(inst, heap, exclude, exclude_underscore, exclude_pk, NoFollow, include)} :
            \E data \in iteritems(a.data) :
                \E r \in {fromdict(inst, data, a.heap, exclude, exclude_underscore, allow_pk,
                                     NoFollow, include)} :
                    /\ Bounded(r.heap)
                    /\ call' = [op |-> "roundtrip", data |-> data, exclude |-> exclude,
                                exclude_underscore |-> exclude_underscore,
                                exclude_pk |-> exclude_pk, allow_pk |-> allow_pk,
                                include |-> include, heap |-> heap, inst |-> inst]
                    /\ ret' = [status |-> r.status, data |-> a.data]
                    /\ inst' = r.model
                    /\ heap' = r.heap
                    /\ UNCHANGED conf

\* the call has returned and its caller has taken the result
Return ==
    /\ call.op # "none"
    /\ call' = NoCall
    /\ ret' = NoRet
    /\ UNCHANGED <<conf, inst, heap>>

OptBools == {None, True, False}

Bools == {True, False}

\* an exclude argument: absent, or the caller's list
OptExclude == {None, "xl"}

NoInclude == {<< >>}

IncludePrivate == {<< >>, <<pp>>}

IncludeName == {<< >>, <<nm>>}

CallOps == {"asdict", "fromdict"}

-----------------------------------------------------------------------------
(* asdict without follow *)

AsdictInstances ==
    {ParentInst(1, 0, 1, 0, NoneRel, << >>), ParentInst(0, 1, 0, 1, NoneRel, << >>)}

AsdictHeaps == {[xl |-> <<nm>>, bxl |-> << >>], [xl |-> <<pp>>, bxl |-> << >>]}

AsdictIncludes == {<< >>, <<pp>>, <<nm>>}

InitAsdict ==
    /\ conf = DefaultConf
    /\ inst \in AsdictInstances
    /\ heap \in AsdictHeaps
    /\ call = NoCall
    /\ ret = NoRet

ConfigureAsdict ==
    make_class_dictable(IncludeName, Bools, {False}, IncludePrivate, NoInclude)

AsdictFlat ==
    AsdictCall(OptExclude, OptBools, OptBools, {NoFollow}, AsdictIncludes)

NextAsdict == ConfigureAsdict \/ AsdictFlat \/ Return

SpecAsdict == InitAsdict /\ [][NextAsdict]_vars

KeysOfKind(cls, kind) == {p.key : p \in {q \in Range(iterate_properties(cls)) : q.kind = kind}}

ColumnFields == KeysOfKind("Parent", "ColumnProperty")
SynonymFields == KeysOfKind("Parent", "SynonymProperty")
RelationshipFields == KeysOfKind("Parent", "RelationshipProperty")
PrimaryKeyFields == {id}
UnderscoreFields == {k \in ColumnFields \cup SynonymFields \cup RelationshipFields : Head(k) = "_"}

\* exclude_underscore as resolved for the recorded call
ResolvedUnderscore ==
    IF call.exclude_underscore # None THEN call.exclude_underscore = True
    ELSE conf.dictalchemy_exclude_underscore = True

\* the exclude set the recorded asdict call resolves to
ResolvedAsdictExclude ==
    Range(ListArg(call.heap, call.exclude)) \cup Range(conf.dictalchemy_exclude)
        \cup (IF ResolvedUnderscore THEN UnderscoreFields ELSE {})
        \cup (IF call.exclude_pk = True THEN PrimaryKeyFields ELSE {})

\* the value an attribute of the instance holds: a synonym reads its column
AttrValue(obj, k) == IF k = sy THEN obj.vals[id] ELSE obj.vals[k]

\* C1: asdict with an empty follow returns exactly the keys (columns UNION
\* synonyms UNION call-site include UNION class asdict include) MINUS the
\* resolved exclude (call-site exclude, class exclude, the underscore fields
\* when exclude_underscore resolves true, the primary keys when exclude_pk is
\* true), each mapped to the instance's current attribute value.
C1_AsdictKeySet ==
    (call.op = "asdict" /\ NormalizeFollow(call.follow) = << >>) =>
        /\ ret.status = "ok"
        /\ DOMAIN ret.data =
              (ColumnFields \cup SynonymFields \cup Range(call.include)
                  \cup Range(conf.dictalchemy_asdict_include)) \ ResolvedAsdictExclude
        /\ \A k \in DOMAIN ret.data : ret.data[k] = AttrValue(inst, k)

\* an asdict call where include adds a key, exclude_pk removes the primary
\* key and the underscore column is excluded by the resolved flag
C1_Witness ==
    /\ call.op = "asdict"
    /\ call.exclude = "xl"
    /\ call.exclude_pk = True
    /\ ResolvedUnderscore
    /\ DOMAIN ret.data = SynonymFields \cup {pp}

\* C9: a list passed as exclude has the same contents after the call as
\* before it.
C9_ExcludeArgumentUnchanged ==
    call.op \in CallOps => heap = call.heap

-----------------------------------------------------------------------------
(* fromdict without follow *)

InitFromdict ==
    /\ conf = DefaultConf
    /\ inst = ParentInst(1, 0, 1, 0, NoneRel, << >>)
    /\ heap = [xl |-> <<nm>>, bxl |-> << >>]
    /\ call = NoCall
    /\ ret = NoRet

ConfigureFromdict ==
    make_class_dictable(NoInclude, {True}, Bools, NoInclude, IncludePrivate)

FlatKeys == {id, nm, sy, pp}

FlatData == DataMappings(FlatKeys, Values, MaxData)

SingleItemData == DataMappings({id, nm, us, sy}, Values, 1)

OptFalse == {None, False}

OptTrue == {None, True}

FromdictFlat ==
    FromdictCall(FlatData, {None}, {None}, OptBools, {NoFollow}, IncludePrivate)

FromdictExcluding ==
    FromdictCall(SingleItemData, {"xl"}, OptFalse, OptTrue, {NoFollow}, IncludeName)

NextFromdict == ConfigureFromdict \/ FromdictFlat \/ FromdictExcluding \/ Return

SpecFromdict == InitFromdict /\ [][NextFromdict]_vars

\* the exclude set the recorded fromdict call resolves to
ResolvedFromdictExclude ==
    Range(ListArg(call.heap, call.exclude)) \cup Range(conf.dictalchemy_exclude)
        \cup (IF ResolvedUnderscore THEN UnderscoreFields ELSE {})

\* the fields the recorded fromdict call may update
UpdatableFields ==
    (ColumnFields \cup SynonymFields \cup Range(call.include)
        \cup Range(conf.dictalchemy_fromdict_include)) \ ResolvedFromdictExclude

\* allow_pk as resolved for the recorded call
EffectiveAllowPk ==
    IF call.allow_pk # None THEN call.allow_pk = True
    ELSE conf.dictalchemy_fromdict_allow_pk = True

\* assigning attribute k of an instance: a synonym writes its column
Assigned(obj, k, v) == [obj EXCEPT !.vals[IF k = sy THEN id ELSE k] = v]

RECURSIVE AssignAll(_, _, _)
\* the instance after assigning, in order, the items whose key is in S
AssignAll(obj, items, S) ==
    IF items = << >> THEN obj
    ELSE AssignAll(IF Head(items)[1] \in S
                   THEN Assigned(obj, Head(items)[1], Head(items)[2]) ELSE obj,
                   Tail(items), S)

DataKeys(items) == {items[i][1] : i \in DOMAIN items}

\* the position of the first primary-key item of the data, 0 when there is none
FirstPk(items) ==
    IF \E i \in DOMAIN items : items[i][1] \in PrimaryKeyFields
    THEN CHOOSE i \in DOMAIN items :
            /\ items[i][1] \in PrimaryKeyFields
            /\ \A j \in DOMAIN items : items[j][1] \in PrimaryKeyFields => i <= j
    ELSE 0

\* C2: fromdict assigns data[key] only when key is in (columns UNION synonyms
\* UNION include) MINUS the resolved exclude; excluded and unknown keys leave
\* the instance as it was.
C2_OnlyUpdatableAssigned ==
    (call.op = "fromdict" /\ ret.status = "ok") =>
        inst = AssignAll(call.inst, call.data, UpdatableFields)

C10_PrimaryKeyColumnKept ==
    (call.op = "fromdict" /\ NormalizeFollow(call.follow) = << >> /\ ~EffectiveAllowPk) =>
        \A k \in PrimaryKeyFields : inst.vals[k] = call.inst.vals[k]

-----------------------------------------------------------------------------
(* fromdict applied to the result of asdict *)

RoundTripInstances == {ParentInst(1, n, 1, p, NoneRel, << >>) : n \in Values, p \in Values}

InitRoundTrip ==
    /\ conf = DefaultConf
    /\ inst \in RoundTripInstances
    /\ heap = [xl |-> <<nm>>, bxl |-> << >>]
    /\ call = NoCall
    /\ ret = NoRet

ConfigureRoundTrip ==
    make_class_dictable(NoInclude, Bools, Bools, IncludePrivate, NoInclude)

RoundTrip ==
    RoundTripCall(OptExclude, OptBools, OptBools, OptBools, IncludePrivate)

NextRoundTrip == ConfigureRoundTrip \/ RoundTrip \/ Return

SpecRoundTrip == InitRoundTrip /\ [][NextRoundTrip]_vars

\* the primary keys asdict leaves in its output are accepted by fromdict
SamePkTreatment == call.exclude_pk # True => EffectiveAllowPk

-----------------------------------------------------------------------------
(* asdict and fromdict with follow *)

Bundle(exclude, exclude_pk, allow_pk) ==
    [kind |-> "kwargs", exclude |-> exclude, exclude_pk |-> exclude_pk, allow_pk |-> allow_pk]

\* follow arguments: a mapping from names to bundles, or a list of names
Follows(names, bundles, n) ==
    {[kind |-> "dict", items |-> f] : f \in ItemSeqs(names \X bundles, n)}
        \cup {[kind |-> "list", items |-> f] :
                f \in {g \in SeqsUpTo(names, n) : \A i, j \in DOMAIN g : i # j => g[i] # g[j]}}
        \cup {NoFollow}

FollowInstances ==
    {ParentInst(1, 0, 1, 0, r, k) :
        r \in {NoneRel, PlainRel, ChildInst(1, 0)},
        k \in SeqsUpTo({ChildInst(0, 0), ChildInst(1, 1)}, MaxKids)}

AsdictBundles == {Bundle(e, p, None) : e \in {None, "bxl"}, p \in {None, True}}

AsdictFollows == Follows({rs, kids, nm}, AsdictBundles, 2)

FromdictBundles == {Bundle(None, None, a) : a \in {None, True}}

FromdictFollows == Follows({rs, nm}, FromdictBundles, 2)

FollowData ==
    ItemSeqs(({nm} \X Values) \cup ({rs} \X DataMappings({id, tg}, {1}, 1)), MaxData)

InitFollow ==
    /\ conf = DefaultConf
    /\ inst \in FollowInstances
    /\ heap = [xl |-> << >>, bxl |-> <<tg>>]
    /\ call = NoCall
    /\ ret = NoRet

AsdictFollowing ==
    AsdictCall({None}, {None}, {None}, AsdictFollows, NoInclude)

FromdictFollowing ==
    FromdictCall(FollowData, {None}, {None}, {None}, FromdictFollows, NoInclude)

NextFollow == AsdictFollowing \/ FromdictFollowing \/ Return

SpecFollow == InitFollow /\ [][NextFollow]_vars

\* the names the follow argument was given with, in order
GivenFollowKeys(follow) ==
    IF follow.kind = "None" THEN << >>
    ELSE IF follow.kind = "dict" THEN [i \in DOMAIN follow.items |-> follow.items[i][1]]
    ELSE follow.items

\* the option bundle the follow argument gives for a name: a list of names
\* gives every name the empty bundle
GivenBundle(follow, k) ==
    IF follow.kind = "dict" THEN Lookup(follow.items, k) ELSE EmptyBundle

\* the mapping form of a follow given as a list of names
AsMapping(follow) ==
    [kind |-> "dict", items |-> [i \in DOMAIN follow.items |-> <<follow.items[i], EmptyBundle>>]]

\* the position of the first follow key that is no relationship, 0 when all are
FirstBad(keys) ==
    IF \E i \in DOMAIN keys : keys[i] \notin RelationshipFields
    THEN CHOOSE i \in DOMAIN keys :
            /\ keys[i] \notin RelationshipFields
            /\ \A j \in DOMAIN keys : keys[j] \notin RelationshipFields => i <= j
    ELSE 0

\* C5: a call whose follow mapping has a key that is no relationship raises
\* the configuration error, whether or not that key is in data: asdict
\* returns no mapping, and fromdict applies no follow key that comes after it.
C5_BadFollowKeyRaises ==
    (call.op \in CallOps /\ call.follow.kind = "dict"
        /\ FirstBad(GivenFollowKeys(call.follow)) # 0) =>
        /\ ret.status = "ValueError"
        /\ call.op = "asdict" => ret.data = << >>
        /\ call.op = "fromdict" =>
              \A i \in DOMAIN call.follow.items :
                  (i > FirstBad(GivenFollowKeys(call.follow))
                      /\ call.follow.items[i][1] \in RelationshipFields) =>
                      inst.rels[call.follow.items[i][1]] = call.inst.rels[call.follow.items[i][1]]

\* the columns a Child's own asdict returns for an exclude list and exclude_pk
ChildAsdict(child, exclude, exclude_pk) ==
    [k \in KeysOfKind("Child", "ColumnProperty")
            \ (Range(exclude) \cup {us} \cup (IF exclude_pk = True THEN {id} ELSE {}))
        |-> child.vals[k]]

\* C6: following a relationship that holds an ordered collection stores a
\* sequence as long as the collection whose i-th element is the i-th child's
\* own asdict under the bundle's options.
C6_CollectionFollowed ==
    (call.op = "asdict" /\ ret.status = "ok" /\ kids \in Range(GivenFollowKeys(call.follow))) =>
        LET args == GivenBundle(call.follow, kids)
            children == inst.rels[kids].items
        IN  /\ kids \in DOMAIN ret.data
            /\ DOMAIN ret.data[kids] = DOMAIN children
            /\ \A i \in DOMAIN children :
                  ret.data[kids][i] =
                      ChildAsdict(children[i], ListArg(call.heap, args.exclude), args.exclude_pk)

\* C7: a follow given as a list of names behaves as the mapping that sends
\* each of the names to an empty bundle.
C7_ListFollowIsMapping ==
    /\ (call.op = "asdict" /\ call.follow.kind = "list") =>
          LET r == asdict(call.inst, call.heap, call.exclude, call.exclude_underscore,
                          call.exclude_pk, AsMapping(call.follow), call.include)
          IN  /\ ret.status = r.status
              /\ ret.status = "ok" => ret.data = r.data
    /\ (call.op = "fromdict" /\ call.follow.kind = "list") =>
          LET r == fromdict(call.inst, call.data, call.heap, call.exclude,
                            call.exclude_underscore, call.allow_pk, AsMapping(call.follow),
                            call.include)
          IN  /\ ret.status = r.status
              /\ inst = r.model

\* C8: a followed relationship whose value is singular and not dictable is
\* stored unconverted under its name, without raising.
C8_NonDictablePassesThrough ==
    (call.op = "asdict" /\ call.follow.kind = "dict"
        /\ FirstBad(GivenFollowKeys(call.follow)) = 0
        /\ rs \in Range(GivenFollowKeys(call.follow))
        /\ (inst.rels[rs].kind = "None" \/ inst.rels[rs].kind = "plain")) =>
        /\ ret.status = "ok"
        /\ rs \in DOMAIN ret.data
        /\ ret.data[rs] = inst.rels[rs]

====
